---------------------------- MODULE Spec2Model ----------------------------
(***************************************************************************)
(* The ledger arithmetic of src/lib/utils.ts: calculateSplits,             *)
(* calculateGroupBalances and calculateMinimumTransactions.                *)
(*                                                                         *)
(* Money.  The source keeps money in IEEE doubles of the base currency.    *)
(* Here an amount is an integer number of ticks, Cent ticks to the cent,   *)
(* so that whole-cent and sub-cent amounts are both exact.  Where a double *)
(* computation lands exactly on a boundary the source compares against     *)
(* (a remainder of exactly one cent against 0.01, a product exactly        *)
(* half-way between two cents under Math.round, a quotient that is an      *)
(* exact integer under Math.floor) the rounding error of the double        *)
(* decides the outcome; the model takes every outcome a double can         *)
(* produce there as a nondeterministic choice.                             *)
(***************************************************************************)
EXTENDS Integers, Sequences, FiniteSets, TLC

VARIABLES
    \* calculateGroupBalances: its two arguments and the Map it returns
    expenses, settlements, balances,
    \* calculateSplits: its four arguments and its outcome
    totalAmount, memberIds, splitType, customSplits, splitResult,
    \* calculateMinimumTransactions: argument, locals, loop position
    balanceMap, creditors, debtors, transactions, i, j, pc,
    \* how many times the simplifier has been run on the balances
    pass,
    \* how many iterations the loop of the simplifier has run in this call
    iterations,
    \* SettleUpModal: the form, its loading and error state, the handler's
    \* position, the insert in flight, and what has been called how often
    payerId, payeeId, amountText, loading, error, stage, pendingInsert,
    submissions, insertAttempts, settledCalls,
    \* the list the other implementation of calculateMinimumTransactions returns
    otherTransactions,
    \* ExpenseModal: the expense being edited, the handler's position, the id
    \* of the row it writes, its error state, the rows stored when it started
    expenseToEdit, modalStage, expenseId, modalError, storedAtSubmit,
    \* GroupDetail: the calls of fetchExpenses, in the order issued
    fetches

balVars == <<expenses, settlements, balances>>
splitVars == <<totalAmount, memberIds, splitType, customSplits, splitResult>>
txVars == <<balanceMap, creditors, debtors, transactions, i, j, pc, pass, iterations>>
settleVars == <<payerId, payeeId, amountText, loading, error, stage, pendingInsert,
                submissions, insertAttempts, settledCalls>>
compareVars == <<otherTransactions>>
modalVars == <<expenseToEdit, modalStage, expenseId, modalError, storedAtSubmit>>
fetchVars == <<fetches>>
uiVars == <<settleVars, compareVars, modalVars, fetchVars>>
vars == <<balVars, splitVars, txVars, uiVars>>

-----------------------------------------------------------------------------
(* Bounds of the model *)

\* ticks per cent: the resolution of modelled money
Cent == 2
\* members of a group
Members == {"u1", "u2", "u3"}
\* largest split or settlement amount, in cents
MaxAmount == 2
\* rows (expenses + splits + settlements) a ledger holds
MaxRecords == 4
\* largest totalAmount handed to calculateSplits, in cents
MaxTotal == 3
\* most participants handed to calculateSplits
MaxParticipants == 4
\* units per percentage point: the resolution of modelled percentages
PctPoint == 100
\* participants, in the order they are listed
ParticipantIds == <<"u1", "u2", "u3", "u4", "u5", "u6">>
\* most entries of a balance map of arbitrary amounts
MaxMapSize == 3
\* largest |balance| of such a map, in ticks
MaxTicks == 5
\* most entries of a zero-sum balance map of whole cents
MaxZeroSumSize == 5
\* largest |balance| of such a map, in cents
MaxZeroSumCents == 7
\* settlements a ledger holds: at most half of its rows
MaxSettlements == MaxRecords \div 2

-----------------------------------------------------------------------------
(* Arithmetic helpers *)

Abs(x) == IF x < 0 THEN -x ELSE x

Min(a, b) == IF a < b THEN a ELSE b

Max(a, b) == IF a > b THEN a ELSE b

RECURSIVE SeqSum(_)
SeqSum(q) == IF q = <<>> THEN 0 ELSE Head(q) + SeqSum(Tail(q))

\* all sequences over S of length 0..n
SeqUpTo(S, n) == UNION {[1..k -> S] : k \in 0..n}

\* Math.floor of a double whose exact value is num / den (den > 0).  When the
\* exact quotient is an integer q >= 1 the double may fall just short of it
\* (19.9 * 100 = 1989.9999999999998), and the floor is then q - 1.
FloorChoices(num, den) ==
    IF num % den = 0 /\ num > 0
    THEN {num \div den, (num \div den) - 1}
    ELSE {num \div den}

\* Math.round of a double whose exact value is num / den (den > 0): nearest
\* integer; an exact tie goes up unless the double fell short of the tie
\* (1.005 * 100 = 100.49999999999999).
RoundChoices(num, den) ==
    LET fl == num \div den
        twice == 2 * (num % den)
    IN  IF twice < den THEN {fl}
        ELSE IF twice > den THEN {fl + 1}
        ELSE {fl, fl + 1}

\* `x > bound` for a double x whose exact value is x: decided by the rounding
\* error when x is exactly the bound (100 - 99.99 > 0.01, 0.03 - 0.02 < 0.01)
GreaterChoices(x, bound) ==
    IF x > bound THEN {TRUE} ELSE IF x < bound THEN {FALSE} ELSE {TRUE, FALSE}

-----------------------------------------------------------------------------
(* Map<string, number>: insertion-ordered entries, one per key.  A value is
   a double: `value` is its exact amount in ticks and `err` tells on which
   side of the amount the double stands (-1 just below, 0 exactly on, +1
   just above).  err is kept only where the source can tell the difference,
   at exactly one cent either way.  The sums of calculateGroupBalances are
   exact amounts in SpecBalances and doubles in SpecReorder, where the order
   of the additions is what is looked at. *)

EmptyMap == <<>>

MapHas(m, k) == \E n \in 1..Len(m) : m[n].key = k

\* `m.get(k) || 0`
MapGetOrZero(m, k) ==
    IF MapHas(m, k) THEN m[CHOOSE n \in 1..Len(m) : m[n].key = k].value ELSE 0

\* `m.set(k, v)`: overwrite in place, or append a new key
MapSet(m, k, v) ==
    IF MapHas(m, k)
    THEN [n \in 1..Len(m) |->
            IF m[n].key = k THEN [key |-> k, value |-> v, err |-> 0] ELSE m[n]]
    ELSE Append(m, [key |-> k, value |-> v, err |-> 0])

MapKeys(m) == {m[n].key : n \in 1..Len(m)}

\* the sides a computed double of exact amount v can stand on: a computed
\* balance of exactly one cent stands on either side of it
\* (0.04 - 0.03 = 0.010000000000000002, 0.03 - 0.02 = 0.009999999999999998)
ErrChoices(v) == IF Abs(v) = Cent THEN {-1, 0, 1} ELSE {0}

\* the side the double held for key k stands on (no entry: exactly 0)
MapErr(m, k) ==
    IF MapHas(m, k) THEN m[CHOOSE n \in 1..Len(m) : m[n].key = k].err ELSE 0

-----------------------------------------------------------------------------
(* calculateSplits *)

\* `s.f || 0` for an optional numeric field
FieldOrZero(s, f) == IF f \in DOMAIN s THEN s[f] ELSE 0

\* `splits.reduce((sum, s) => sum + (s.f || 0), 0)`
RECURSIVE SumField(_, _)
SumField(splits, f) ==
    IF splits = <<>> THEN 0
    ELSE SumField(SubSeq(splits, 1, Len(splits) - 1), f)
         + FieldOrZero(splits[Len(splits)], f)

Threw(msg) == [status |-> "threw", error |-> msg, splits |-> <<>>]

Returned(splits) == [status |-> "returned", error |-> "", splits |-> splits]

\* perPerson, in cents: Math.floor((totalAmount * 100) / memberIds.length)
PerPersonChoices(total, n) == FloorChoices(total, Cent * n)

\* remainder, in cents: Math.round((totalAmount - perPerson * n) * 100)
RemainderChoices(total, n, perPerson) ==
    RoundChoices(total - perPerson * Cent * n, Cent)

\* the splits of calculateEqualSplit for one perPerson and one remainder (cents)
EqualSplitNoRemainder(ids, perPerson, remainder) ==
    [k \in 1..Len(ids) |-> [user_id |-> ids[k], amount |-> perPerson * Cent]]
EqualSplitOf(ids, perPerson, remainder) ==
    [k \in 1..Len(ids) |->
        [user_id |-> ids[k],
         amount |-> IF k = 1 THEN (perPerson + remainder) * Cent
                    ELSE perPerson * Cent]]

\* every result calculateEqualSplit can return
calculateEqualSplit(total, ids) ==
    UNION {{Returned(EqualSplitOf(ids, per, rem)) :
              rem \in RemainderChoices(total, Len(ids), per)} :
           per \in PerPersonChoices(total, Len(ids))}

\* Math.round(totalAmount * percentage), in cents
PercentageAmountChoices(total, pct) == RoundChoices(total * pct, 100 * Cent * PctPoint)

\* every list `splits.map(...)` of calculatePercentageSplit can produce
RECURSIVE PercentageSplitsOf(_, _)
PercentageSplitsOf(total, splits) ==
    IF splits = <<>> THEN {<<>>}
    ELSE LET s == Head(splits)
         IN  {<<[user_id |-> s.user_id, amount |-> c * Cent]>> \o rest :
                c \in PercentageAmountChoices(total, FieldOrZero(s, "percentage")),
                rest \in PercentageSplitsOf(total, Tail(splits))}

\* Math.abs(totalPercentage - 100) > 0.01
PercentageMismatch(splits) ==
    GreaterChoices(100 * Abs(SumField(splits, "percentage") - 100 * PctPoint), PctPoint)

calculatePercentageSplit(total, splits) ==
    UNION {IF bad THEN {Threw("Percentages must sum to 100")}
           ELSE {Returned(r) : r \in PercentageSplitsOf(total, splits)} :
           bad \in PercentageMismatch(splits)}

\* Math.abs(totalSplitAmount - totalAmount) > 0.01
ExactMismatch(total, splits) ==
    GreaterChoices(Abs(SumField(splits, "amount") - total), Cent)

ExactSplitsOf(splits) ==
    [k \in 1..Len(splits) |->
        [user_id |-> splits[k].user_id, amount |-> FieldOrZero(splits[k], "amount")]]

calculateExactSplit(total, splits) ==
    UNION {IF bad THEN {Threw("Split amounts must equal total amount")}
           ELSE {Returned(ExactSplitsOf(splits))} :
           bad \in ExactMismatch(total, splits)}

\* `customSplits || []`
CustomOrEmpty(custom) == IF custom.given THEN custom.list ELSE <<>>

\* the policies: the switch on splitType, and its default
SplitPolicy(total, ids, type, custom) ==
    IF type = "equal" THEN calculateEqualSplit(total, ids)
    ELSE IF type = "percentage" THEN calculatePercentageSplit(total, CustomOrEmpty(custom))
    ELSE IF type = "exact" THEN calculateExactSplit(total, CustomOrEmpty(custom))
    ELSE {Threw("Unknown split type: " \o type)}

\* every outcome of calculateSplits(totalAmount, memberIds, splitType, customSplits)
calculateSplitsAmountFirst(total, ids, type, custom) ==
    IF total <= 0 THEN {Threw("Amount must be positive")}
    ELSE IF Len(ids) = 0 THEN {Threw("At least one member is required")}
    ELSE SplitPolicy(total, ids, type, custom)
calculateSplits(total, ids, type, custom) ==
    IF Len(ids) = 0 THEN {Threw("At least one member is required")}
    ELSE IF total <= 0 THEN {Threw("Amount must be positive")}
    ELSE SplitPolicy(total, ids, type, custom)

-----------------------------------------------------------------------------
(* calculateGroupBalances *)

\* `expense.splits.reduce((sum, s) => sum + s.amount, 0)`
RECURSIVE SumSplitAmounts(_)
SumSplitAmounts(splits) ==
    IF splits = <<>> THEN 0
    ELSE SumSplitAmounts(SubSeq(splits, 1, Len(splits) - 1)) + splits[Len(splits)].amount

\* payer is credited the sum of the expense's splits
CreditPayerUnlessEmpty(b, expense) ==
    IF expense.splits = <<>> THEN b
    ELSE MapSet(b, expense.payer_id,
                MapGetOrZero(b, expense.payer_id) + SumSplitAmounts(expense.splits))
CreditPayerOverwrite(b, expense) ==
    MapSet(b, expense.payer_id, SumSplitAmounts(expense.splits))
CreditPayer(b, expense) ==
    MapSet(b, expense.payer_id,
           MapGetOrZero(b, expense.payer_id) + SumSplitAmounts(expense.splits))

\* one split: its user owes the portion
DebitSplit(b, split) ==
    MapSet(b, split.user_id, MapGetOrZero(b, split.user_id) - split.amount)

RECURSIVE DebitSplits(_, _)
DebitSplits(b, splits) ==
    IF splits = <<>> THEN b
    ELSE DebitSplits(DebitSplit(b, Head(splits)), Tail(splits))

ApplyExpense(b, expense) == DebitSplits(CreditPayer(b, expense), expense.splits)

RECURSIVE ApplyExpenses(_, _)
ApplyExpenses(b, es) ==
    IF es = <<>> THEN b
    ELSE ApplyExpenses(ApplyExpense(b, Head(es)), Tail(es))

\* one settlement: payer's balance minus amount, then payee's balance plus amount
ApplySettlementSwapped(b, s) ==
    LET b1 == MapSet(b, s.payer_id, MapGetOrZero(b, s.payer_id) + s.amount)
    IN  MapSet(b1, s.payee_id, MapGetOrZero(b1, s.payee_id) - s.amount)
ApplySettlement(b, s) ==
    LET b1 == MapSet(b, s.payer_id, MapGetOrZero(b, s.payer_id) - s.amount)
    IN  MapSet(b1, s.payee_id, MapGetOrZero(b1, s.payee_id) + s.amount)

RECURSIVE ApplySettlements(_, _)
ApplySettlements(b, ss) ==
    IF ss = <<>> THEN b
    ELSE ApplySettlements(ApplySettlement(b, Head(ss)), Tail(ss))

calculateGroupBalances(es, ss) ==
    ApplySettlements(ApplyExpenses(EmptyMap, es), ss)

(* The additions behind one member's balance, in the order the function makes
   them.  A double sum depends on that order once three numbers are added
   ((0.02 - 0.02) + 0.01 = 0.01 but (0.02 + 0.01) - 0.02 = 0.00999...98);
   two numbers give the same double either way round. *)

Term(a, parts) == [amount |-> a, parts |-> parts]

\* the split amounts `reduce` adds up, kept when their order can matter
PartsOf(splits) ==
    IF Len(splits) >= 3 THEN [n \in 1..Len(splits) |-> splits[n].amount] ELSE <<>>

\* lines 103-106: one debit for every split of member k, in the order of the splits
RECURSIVE DebitTerms(_, _)
DebitTerms(k, splits) ==
    IF splits = <<>> THEN <<>>
    ELSE (IF Head(splits).user_id = k THEN <<Term(-Head(splits).amount, <<>>)>> ELSE <<>>)
         \o DebitTerms(k, Tail(splits))

\* lines 98-106: what one expense adds to the balance of member k (adding the
\* 0 of an expense without splits changes no double)
ExpenseTerms(k, expense) ==
    (IF expense.payer_id = k /\ expense.splits # <<>>
     THEN <<Term(SumSplitAmounts(expense.splits), PartsOf(expense.splits))>> ELSE <<>>)
    \o DebitTerms(k, expense.splits)

\* lines 113-118: what one settlement adds to the balance of member k
SettlementTerms(k, s) ==
    (IF s.payer_id = k THEN <<Term(-s.amount, <<>>)>> ELSE <<>>)
    \o (IF s.payee_id = k THEN <<Term(s.amount, <<>>)>> ELSE <<>>)

RECURSIVE TermsOf(_, _, _)
TermsOf(k, es, ss) ==
    IF es # <<>> THEN ExpenseTerms(k, Head(es)) \o TermsOf(k, Tail(es), ss)
    ELSE IF ss # <<>> THEN SettlementTerms(k, Head(ss)) \o TermsOf(k, es, Tail(ss))
    ELSE <<>>

\* the two sequences of additions give the same double
SameDouble(new, old) ==
    \/ new = old
    \/ Len(new) = 2 /\ Len(old) = 2 /\ new[1] = old[2] /\ new[2] = old[1]

\* the sum is exact: nothing is added to 0, or one number is
ExactSum(terms) ==
    \/ terms = <<>>
    \/ Len(terms) = 1 /\ terms[1].parts = <<>>

\* the sides the double balance of member k (exact amount v) can stand on,
\* given the side it stood on after the additions of the ledger before
ErrAfter(k, v, es, ss, oldEs, oldSs, oldMap) ==
    IF SameDouble(TermsOf(k, es, ss), TermsOf(k, oldEs, oldSs)) THEN {MapErr(oldMap, k)}
    ELSE IF ExactSum(TermsOf(k, es, ss)) THEN {0}
    ELSE ErrChoices(v)

\* the exact map m as doubles
RECURSIVE AsDoubles(_, _, _, _, _, _)
AsDoubles(m, es, ss, oldEs, oldSs, oldMap) ==
    IF m = <<>> THEN {<<>>}
    ELSE {<<[Head(m) EXCEPT !.err = e]>> \o rest :
            e \in ErrAfter(Head(m).key, Head(m).value, es, ss, oldEs, oldSs, oldMap),
            rest \in AsDoubles(Tail(m), es, ss, oldEs, oldSs, oldMap)}

\* every Map of doubles calculateGroupBalances(es, ss) can return, when it
\* returned oldMap for the ledger oldEs, oldSs
BalanceDoubles(es, ss, oldEs, oldSs, oldMap) ==
    AsDoubles(calculateGroupBalances(es, ss), es, ss, oldEs, oldSs, oldMap)

-----------------------------------------------------------------------------
(* calculateMinimumTransactions *)

(* A creditor or debtor entry is {userId, amount}; amount is a double, with
   its err as for a Map value.  The doubles from 2^-6 = 0.015625 up are
   multiples of 2^-58, and so is every difference of two of them; the double
   0.01 is not.  `fine` tells that the amount is below 2^-6, or is a
   difference in which such an amount took part. *)
Entry(u, a, e) ==
    [userId |-> u, amount |-> a, err |-> e, fine |-> a * 1000000 < 15625 * Cent]

\* `balance > 0.01`
IsCreditor(e) == e.value > Cent \/ (e.value = Cent /\ e.err = 1)

\* `balance < -0.01`
IsDebtor(e) == e.value < -Cent \/ (e.value = -Cent /\ e.err = -1)

\* `balances.forEach`: the creditors, in the order of the map
RECURSIVE CreditorsOf(_)
CreditorsOf(m) ==
    IF m = <<>> THEN <<>>
    ELSE (IF IsCreditor(Head(m))
          THEN <<Entry(Head(m).key, Head(m).value, Head(m).err)>> ELSE <<>>)
         \o CreditorsOf(Tail(m))

\* `balances.forEach`: the debtors, by the amount owed, in the order of the map
RECURSIVE DebtorsOf(_)
DebtorsOf(m) ==
    IF m = <<>> THEN <<>>
    ELSE (IF ~IsCreditor(Head(m)) /\ IsDebtor(Head(m))
          THEN <<Entry(Head(m).key, -Head(m).value, -Head(m).err)>> ELSE <<>>)
         \o DebtorsOf(Tail(m))

\* x goes behind every entry that is not smaller: the sort is stable
RECURSIVE InsertDesc(_, _)
InsertDesc(x, sorted) ==
    IF sorted = <<>> THEN <<x>>
    ELSE IF Head(sorted).amount >= x.amount
         THEN <<Head(sorted)>> \o InsertDesc(x, Tail(sorted))
         ELSE <<x>> \o sorted

\* `list.sort((a, b) => b.amount - a.amount)`
RECURSIVE SortDesc(_)
SortDesc(list) ==
    IF list = <<>> THEN <<>>
    ELSE InsertDesc(list[Len(list)], SortDesc(SubSeq(list, 1, Len(list) - 1)))

\* a < b as doubles
LessThan(a, b) == a.amount < b.amount \/ (a.amount = b.amount /\ a.err < b.err)

\* `Math.min(creditor.amount, debtor.amount)`
MinAmountOfCreditor(c, d) == c
LargerAmount(c, d) == IF LessThan(d, c) THEN c ELSE d
MinAmount(c, d) == IF LessThan(d, c) THEN d ELSE c

\* `amount > 0.01`
AboveCent(a) == a.amount > Cent \/ (a.amount = Cent /\ a.err = 1)

\* `x.amount < 0.01`
BelowCentNever(a) == FALSE
BelowCent(a) == a.amount < Cent \/ (a.amount = Cent /\ a.err = -1)

\* `x.amount -= amount`: x - x is exactly 0; a difference of exactly one cent
\* comes out on either side of 0.01 (0.03 - 0.02, 0.05 - 0.04, 0.1 - 0.09), and
\* on 0.01 itself only where an operand is a fine double (0.02 - 0.01)
DecrementedForgotten(x, a) == {x}
DecrementedAnySide(x, a) ==
    IF x.amount - a.amount = Cent /\ ~(x.amount = a.amount /\ x.err = a.err)
    THEN {[Entry(x.userId, Cent, e) EXCEPT !.fine = x.fine \/ a.fine] : e \in {-1, 0, 1}}
    ELSE {[Entry(x.userId, x.amount - a.amount, 0) EXCEPT !.fine = x.fine \/ a.fine]}
Decremented(x, a) ==
    LET fine == x.fine \/ a.fine
    IN  IF x.amount - a.amount = Cent /\ ~(x.amount = a.amount /\ x.err = a.err)
        THEN {[Entry(x.userId, Cent, e) EXCEPT !.fine = fine] :
                 e \in (IF fine THEN {-1, 0, 1} ELSE {-1, 1})}
        ELSE {[Entry(x.userId, x.amount - a.amount, 0) EXCEPT !.fine = fine]}

\* `Math.round(amount * 100) / 100`, in ticks
NotRoundedToCents(a) == {a.amount}
RoundedToCents(a) == {c * Cent : c \in RoundChoices(a.amount, Cent)}

\* lines 141-157: partition, sort, empty result, both pointers at 0
PartitionKeepingResult ==
    /\ pc = "start"
    /\ creditors' = SortDesc(CreditorsOf(balanceMap))
    /\ debtors' = SortDesc(DebtorsOf(balanceMap))
    /\ transactions' = transactions
    /\ i' = 0
    /\ j' = 0
    /\ iterations' = 0
    /\ pc' = "loop"
    /\ UNCHANGED <<balanceMap, pass, balVars, splitVars, uiVars>>
Partition ==
    /\ pc = "start"
    /\ creditors' = SortDesc(CreditorsOf(balanceMap))
    /\ debtors' = SortDesc(DebtorsOf(balanceMap))
    /\ transactions' = <<>>
    /\ i' = 0
    /\ j' = 0
    /\ iterations' = 0
    /\ pc' = "loop"
    /\ UNCHANGED <<balanceMap, pass, balVars, splitVars, uiVars>>

\* lines 159-177: one iteration of the sweep
LoopStep ==
    /\ pc = "loop"
    /\ i < Len(creditors) /\ j < Len(debtors)
    /\ LET creditor == creditors[i + 1]
           debtor == debtors[j + 1]
           amount == MinAmount(creditor, debtor)
       IN  /\ \E r \in RoundedToCents(amount) :
                 transactions' =
                     IF AboveCent(amount)
                     THEN Append(transactions,
                                 [from |-> debtor.userId, to |-> creditor.userId, amount |-> r])
                     ELSE transactions
           /\ \E c \in Decremented(creditor, amount), d \in Decremented(debtor, amount) :
                 /\ creditors' = [creditors EXCEPT ![i + 1] = c]
                 /\ debtors' = [debtors EXCEPT ![j + 1] = d]
                 /\ i' = IF BelowCent(c) THEN i + 1 ELSE i
                 /\ j' = IF BelowCent(d) THEN j + 1 ELSE j
    /\ iterations' = iterations + 1
    /\ UNCHANGED <<balanceMap, pc, pass, balVars, splitVars, uiVars>>

\* lines 159, 179: the loop condition fails, the transactions are returned
LoopExit ==
    /\ pc = "loop"
    /\ ~(i < Len(creditors) /\ j < Len(debtors))
    /\ pc' = "done"
    /\ UNCHANGED <<balanceMap, creditors, debtors, transactions, i, j, iterations, pass, balVars, splitVars, uiVars>>

\* the balances after every returned transaction is paid: from's balance
\* rises by the amount, to's balance falls by it
RECURSIVE PayAll(_, _)
PayAll(m, txs) ==
    IF txs = <<>> THEN m
    ELSE LET t == Head(txs)
             m1 == MapSet(m, t.from, MapGetOrZero(m, t.from) + t.amount)
         IN  PayAll(MapSet(m1, t.to, MapGetOrZero(m1, t.to) - t.amount), Tail(txs))

\* the doubles a computed map can hold
RECURSIVE DoublesOf(_, _)
DoublesOf(m, computed) ==
    IF m = <<>> THEN {<<>>}
    ELSE {<<[Head(m) EXCEPT !.err = e]>> \o rest :
            e \in (IF Head(m).key \in computed THEN ErrChoices(Head(m).value)
                   ELSE {Head(m).err}),
            rest \in DoublesOf(Tail(m), computed)}

\* the members a list of transactions names
Parties(txs) == {txs[k].from : k \in 1..Len(txs)} \cup {txs[k].to : k \in 1..Len(txs)}

\* the simplifier is run again on the balances its own transactions leave
Resettle ==
    /\ pc = "done"
    /\ pass = 1
    /\ transactions # <<>>
    /\ balanceMap' \in DoublesOf(PayAll(balanceMap, transactions), Parties(transactions))
    /\ pass' = 2
    /\ pc' = "start"
    /\ UNCHANGED <<creditors, debtors, transactions, i, j, iterations, balVars, splitVars, uiVars>>

-----------------------------------------------------------------------------
(* The ledger the aggregator is applied to *)

\* whole-cent amounts, in ticks
CentAmounts == {c * Cent : c \in 1..MaxAmount}

SplitRows == [user_id : Members, amount : CentAmounts]

SettlementRows == [payer_id : Members, payee_id : Members, amount : CentAmounts]

RECURSIVE CountSplits(_)
CountSplits(es) ==
    IF es = <<>> THEN 0 ELSE Len(Head(es).splits) + CountSplits(Tail(es))

Records == Len(expenses) + CountSplits(expenses) + Len(settlements)

\* an expense and its splits are stored
StoreExpense ==
    /\ Records < MaxRecords
    /\ \E payer \in Members, splits \in SeqUpTo(SplitRows, MaxRecords - Records - 1) :
         expenses' = Append(expenses, [payer_id |-> payer, splits |-> splits])
    /\ settlements' = settlements
    /\ UNCHANGED <<splitVars, txVars, uiVars>>

\* a settlement is stored
StoreSettlement ==
    /\ Records < MaxRecords
    /\ Len(settlements) < MaxSettlements
    /\ \E s \in SettlementRows : settlements' = Append(settlements, s)
    /\ expenses' = expenses
    /\ UNCHANGED <<splitVars, txVars, uiVars>>

\* the balances are computed afresh after a record is stored: as exact amounts
RecordExpense ==
    /\ StoreExpense
    /\ balances' = calculateGroupBalances(expenses', settlements')

RecordSettlement ==
    /\ StoreSettlement
    /\ balances' = calculateGroupBalances(expenses', settlements')

\* the same, the balances being the doubles the function returns
RecordExpenseDoubles ==
    /\ StoreExpense
    /\ balances' \in BalanceDoubles(expenses', settlements', expenses, settlements, balances)

RecordSettlementDoubles ==
    /\ StoreSettlement
    /\ balances' \in BalanceDoubles(expenses', settlements', expenses, settlements, balances)

\* the permutations of 1..n
Perms(n) == {p \in [1..n -> 1..n] : \A a \in 1..n, b \in 1..n : a # b => p[a] # p[b]}

Permuted(q, p) == [k \in 1..Len(q) |-> q[p[k]]]

\* the rows come back from the store in another order (the queries for
\* splits and settlements state none); the balances are computed afresh
ReorderExpenses ==
    /\ \E p \in Perms(Len(expenses)) :
         /\ Permuted(expenses, p) # expenses
         /\ expenses' = Permuted(expenses, p)
    /\ settlements' = settlements
    /\ balances' \in BalanceDoubles(expenses', settlements', expenses, settlements, balances)
    /\ UNCHANGED <<splitVars, txVars, uiVars>>

ReorderSettlements ==
    /\ \E p \in Perms(Len(settlements)) :
         /\ Permuted(settlements, p) # settlements
         /\ settlements' = Permuted(settlements, p)
    /\ expenses' = expenses
    /\ balances' \in BalanceDoubles(expenses', settlements', expenses, settlements, balances)
    /\ UNCHANGED <<splitVars, txVars, uiVars>>

ReorderSplits ==
    /\ \E n \in 1..Len(expenses) : \E p \in Perms(Len(expenses[n].splits)) :
         /\ Permuted(expenses[n].splits, p) # expenses[n].splits
         /\ expenses' = [expenses EXCEPT ![n].splits = Permuted(expenses[n].splits, p)]
    /\ settlements' = settlements
    /\ balances' \in BalanceDoubles(expenses', settlements', expenses, settlements, balances)
    /\ UNCHANGED <<splitVars, txVars, uiVars>>

-----------------------------------------------------------------------------
(* Idle values of the components a specification does not exercise *)

IdleBalances ==
    /\ expenses = <<>>
    /\ settlements = <<>>
    /\ balances = EmptyMap

NotCalled == [status |-> "pending", error |-> "", splits |-> <<>>]

NoCustomSplits == [given |-> FALSE, list |-> <<>>]

IdleSplits ==
    /\ totalAmount = 0
    /\ memberIds = <<>>
    /\ splitType = "equal"
    /\ customSplits = NoCustomSplits
    /\ splitResult = NotCalled

IdleTransactions ==
    /\ balanceMap = EmptyMap
    /\ creditors = <<>>
    /\ debtors = <<>>
    /\ transactions = <<>>
    /\ i = 0
    /\ j = 0
    /\ pc = "idle"
    /\ pass = 0
    /\ iterations = 0

\* `null`
Null == "null"

IdleSettleUp ==
    /\ payerId = ""
    /\ payeeId = ""
    /\ amountText = ""
    /\ loading = FALSE
    /\ error = Null
    /\ stage = "unmounted"
    /\ pendingInsert = Null
    /\ submissions = 0
    /\ insertAttempts = 0
    /\ settledCalls = 0

IdleCompare == otherTransactions = <<>>

IdleModal ==
    /\ expenseToEdit = 0
    /\ modalStage = "unmounted"
    /\ expenseId = 0
    /\ modalError = Null
    /\ storedAtSubmit = <<>>

IdleFetches == fetches = <<>>

IdleComponents == IdleSettleUp /\ IdleCompare /\ IdleModal /\ IdleFetches

-----------------------------------------------------------------------------
(* Specification of the aggregator: the amounts of the balances *)

InitBalances ==
    /\ expenses = <<>>
    /\ settlements = <<>>
    /\ balances = calculateGroupBalances(<<>>, <<>>)
    /\ IdleSplits
    /\ IdleTransactions
    /\ IdleComponents

NextBalances == RecordExpense \/ RecordSettlement

SpecBalances == InitBalances /\ [][NextBalances]_vars

-----------------------------------------------------------------------------
(* Specification of the aggregator on rows that come back in any order: the
   balances are doubles, and the side of one cent a balance stands on is
   tracked from one order of the rows to the next *)

InitReorder == InitBalances

NextReorder ==
    \/ RecordExpenseDoubles
    \/ RecordSettlementDoubles
    \/ ReorderExpenses
    \/ ReorderSettlements
    \/ ReorderSplits

SpecReorder == InitReorder /\ [][NextReorder]_vars

-----------------------------------------------------------------------------
(* Specification of the split calculator: the arguments are drawn, then the
   function is called once *)

SplitTypes == {"equal", "percentage", "exact", "weighted"}

\* totalAmount in ticks: non-positive, sub-cent and whole-cent values
TotalAmounts == (-Cent)..(MaxTotal * Cent)

\* percentages a custom input carries, in units of 1 / PctPoint
PercentChoices ==
    {25 * PctPoint, 50 * PctPoint, 100 * PctPoint,
     (100 * PctPoint) \div 3, 100 * PctPoint - 2 * ((100 * PctPoint) \div 3)}

\* amounts a custom input carries, in ticks
ExactChoices == {-Cent, 1, Cent, 2 * Cent}

\* the custom inputs for one participant under one policy (the field may be missing)
CustomRows(id, type) ==
    IF type = "percentage"
    THEN {[user_id |-> id]} \cup {[user_id |-> id, percentage |-> p] : p \in PercentChoices}
    ELSE {[user_id |-> id]} \cup {[user_id |-> id, amount |-> a] : a \in ExactChoices}

\* one custom input per listed participant, in the order listed
RECURSIVE CustomLists(_, _)
CustomLists(ids, type) ==
    IF ids = <<>> THEN {<<>>}
    ELSE {<<row>> \o rest : row \in CustomRows(Head(ids), type),
                            rest \in CustomLists(Tail(ids), type)}

CustomInputs(ids, type) ==
    IF type \in {"percentage", "exact"}
    THEN {NoCustomSplits} \cup {[given |-> TRUE, list |-> l] : l \in CustomLists(ids, type)}
    ELSE {NoCustomSplits}

InitSplits ==
    /\ totalAmount \in TotalAmounts
    /\ \E n \in 0..MaxParticipants : memberIds = SubSeq(ParticipantIds, 1, n)
    /\ splitType \in SplitTypes
    /\ customSplits \in CustomInputs(memberIds, splitType)
    /\ splitResult = NotCalled
    /\ IdleBalances
    /\ IdleTransactions
    /\ IdleComponents

CallCalculateSplits ==
    /\ splitResult.status = "pending"
    /\ splitResult' \in calculateSplits(totalAmount, memberIds, splitType, customSplits)
    /\ UNCHANGED <<totalAmount, memberIds, splitType, customSplits, balVars, txVars, uiVars>>

NextSplits == CallCalculateSplits

SpecSplits == InitSplits /\ [][NextSplits]_vars

-----------------------------------------------------------------------------
(* Specification of the simplifier: a balance map is drawn, the function runs
   on it step by step, and then once more on the balances its transactions
   leave *)

\* the balance map with keys u1..un in insertion order
MapOf(values, errs) ==
    [k \in 1..Len(values) |->
        [key |-> ParticipantIds[k], value |-> values[k], err |-> errs[k]]]

\* any balances, sub-cent ones and the doubles next to one cent included
IsSmallMap(m) ==
    \E n \in 0..MaxMapSize :
        \E v \in [1..n -> (-MaxTicks)..MaxTicks], e \in [1..n -> {-1, 0, 1}] :
            /\ \A k \in 1..n : e[k] \in ErrChoices(v[k])
            /\ m = MapOf(v, e)

\* whole-cent balances of at least two cents, owed or owing
OwedOrOwing == {c \in (-MaxZeroSumCents)..MaxZeroSumCents : Abs(c) >= 2}

\* whole-cent balances that sum to zero, every member a creditor or a debtor:
\* listed from the largest down, and a last one that balances the others
IsZeroSumMap(m) ==
    \E n \in 2..MaxZeroSumSize :
        \E v \in [1..(n - 1) -> OwedOrOwing] :
            /\ \A k \in 1..(n - 2) : v[k] >= v[k + 1]
            /\ -SeqSum(v) \in OwedOrOwing
            /\ m = MapOf([k \in 1..n |-> IF k < n THEN v[k] * Cent ELSE -SeqSum(v) * Cent],
                         [k \in 1..n |-> 0])

InitSimplify ==
    /\ IsSmallMap(balanceMap) \/ IsZeroSumMap(balanceMap)
    /\ creditors = <<>>
    /\ debtors = <<>>
    /\ transactions = <<>>
    /\ i = 0
    /\ j = 0
    /\ pc = "start"
    /\ pass = 1
    /\ iterations = 0
    /\ IdleBalances
    /\ IdleSplits
    /\ IdleComponents

NextSimplify == Partition \/ LoopStep \/ LoopExit \/ Resettle

SpecSimplify == InitSimplify /\ [][NextSimplify]_vars

-----------------------------------------------------------------------------
(* Claims about calculateGroupBalances *)

SplitTotal(e) == SeqSum([n \in 1..Len(e.splits) |-> e.splits[n].amount])

SplitShare(e, m) ==
    SeqSum([n \in 1..Len(e.splits) |->
              IF e.splits[n].user_id = m THEN e.splits[n].amount ELSE 0])

PaidBy(m) ==
    SeqSum([k \in 1..Len(expenses) |->
              IF expenses[k].payer_id = m THEN SplitTotal(expenses[k]) ELSE 0])

OwedBy(m) == SeqSum([k \in 1..Len(expenses) |-> SplitShare(expenses[k], m)])

RemoveAt(q, k) == SubSeq(q, 1, k - 1) \o SubSeq(q, k + 1, Len(q))

\* C1: with expenses only, each member's balance is what the member paid
\* (the split sums of the expenses the member is payer of) minus what the
\* member owes (the split amounts carrying the member as user).
C1_BalanceIsPaidMinusOwed ==
    settlements = <<>> =>
        \A m \in Members : MapGetOrZero(balances, m) = PaidBy(m) - OwedBy(m)

\* one expense paid by u1, split evenly between u1 and u2: +share and -share
C1_Witness ==
    /\ settlements = <<>>
    /\ expenses = <<[payer_id |-> "u1",
                     splits |-> <<[user_id |-> "u1", amount |-> 2 * Cent],
                                  [user_id |-> "u2", amount |-> 2 * Cent]>>]>>
    /\ MapGetOrZero(balances, "u1") = 2 * Cent
    /\ MapGetOrZero(balances, "u2") = -(2 * Cent)

\* C2: an expense paid by A and split between A and B, followed by a
\* settlement in which B pays A exactly B's share, leaves A and B at zero.
C2_SettlementNetsToZero ==
    \A a \in Members, b \in Members, x \in CentAmounts, y \in CentAmounts :
        ( /\ a # b
          /\ expenses = <<[payer_id |-> a,
                           splits |-> <<[user_id |-> a, amount |-> x],
                                        [user_id |-> b, amount |-> y]>>]>>
          /\ settlements = <<[payer_id |-> b, payee_id |-> a, amount |-> y]>> )
        => /\ MapGetOrZero(balances, a) = 0
           /\ MapGetOrZero(balances, b) = 0

-----------------------------------------------------------------------------
(* Claims about calculateSplits *)

ReturnedAmounts == [k \in 1..Len(splitResult.splits) |-> splitResult.splits[k].amount]

WholeCents(x) == x % Cent = 0

\* C4: for a positive whole-cent totalAmount and a non-empty participant
\* list, the amounts returned under policy 'equal' sum to exactly totalAmount.
C4_EqualSplitConservesTotal ==
    ( /\ splitResult.status = "returned"
      /\ splitType = "equal"
      /\ WholeCents(totalAmount) )
    => SeqSum(ReturnedAmounts) = totalAmount

\* an uneven equal split: 2 cents among 3 participants
C4_Witness ==
    /\ splitResult.status = "returned"
    /\ splitType = "equal"
    /\ totalAmount = 2 * Cent
    /\ Len(memberIds) = 3
    /\ splitResult.splits[1].amount # splitResult.splits[2].amount

\* C5: whenever calculateSplits returns, under any policy, the returned
\* amounts sum to totalAmount within 0.01.
C5_SplitsSumToTotal ==
    splitResult.status = "returned"
    => Abs(SeqSum(ReturnedAmounts) - totalAmount) <= Cent

-----------------------------------------------------------------------------
(* Claims about calculateMinimumTransactions *)

MapValues(m) == [k \in 1..Len(m) |-> m[k].value]

\* the balances are exact and sum to zero
ZeroSum(m) == SeqSum(MapValues(m)) = 0 /\ \A k \in 1..Len(m) : m[k].err = 0

SumPositive(m) == SeqSum([k \in 1..Len(m) |-> Max(m[k].value, 0)])

TransactionTotal == SeqSum([k \in 1..Len(transactions) |-> transactions[k].amount])

NonZeroCount(m) == Cardinality({k \in 1..Len(m) : m[k].value # 0})

\* the function has returned from its run on the balance map first drawn
Returned1 == pc = "done" /\ pass = 1

\* C6: for a balance map that sums to zero, the amounts of the returned
\* transactions sum to the sum of the positive balances.
C6_TransactionsConserveTotal ==
    (Returned1 /\ ZeroSum(balanceMap))
    => TransactionTotal = SumPositive(balanceMap)

\* C7: for a balance map that sums to zero, once every returned transaction
\* is paid, every member's balance is within 0.01 of zero.
C7_TransactionsSettleAll ==
    (Returned1 /\ ZeroSum(balanceMap))
    => \A k \in 1..Len(balanceMap) :
           Abs(MapGetOrZero(PayAll(balanceMap, transactions), balanceMap[k].key)) <= Cent

\* C8: running the function again on the balances its own transactions
\* leave returns no transaction.
C8_SecondPassIsEmpty ==
    (pc = "done" /\ pass = 2) => transactions = <<>>

SetMax(S) == CHOOSE x \in S : \A y \in S : x >= y

RECURSIVE SumAt(_, _)
SumAt(m, S) ==
    IF S = {} THEN 0
    ELSE LET k == CHOOSE x \in S : TRUE IN m[k].value + SumAt(m, S \ {k})

\* the most groups the members S can be divided into, each group summing to zero
RECURSIVE MaxZeroSumGroups(_, _)
MaxZeroSumGroups(m, S) ==
    IF S = {} THEN 0
    ELSE LET first == CHOOSE x \in S : \A y \in S : x <= y
             groups == {T \in SUBSET S : first \in T /\ SumAt(m, T) = 0}
         IN  SetMax({1 + MaxZeroSumGroups(m, S \ T) : T \in groups})

\* the fewest payer-to-payee transactions that settle a zero-sum map: a group
\* of k members that sums to zero is settled by k - 1 payments and no fewer
FewestTransactions(m) ==
    LET owing == {k \in 1..Len(m) : m[k].value # 0}
    IN  Cardinality(owing) - MaxZeroSumGroups(m, owing)

\* C9: for a balance map that sums to zero, no smaller set of transactions
\* settles the balances than the one returned.
C9_FewestTransactions ==
    (Returned1 /\ ZeroSum(balanceMap))
    => Len(transactions) <= FewestTransactions(balanceMap)

\* C10: for a balance map with a member whose |balance| exceeds 0.01, at
\* most n - 1 transactions are returned (and at no point of the sweep are
\* there more), n being the number of members with a non-zero balance.
C10_AtMostNMinusOne ==
    ( /\ pc \in {"loop", "done"}
      /\ \E k \in 1..Len(balanceMap) : Abs(balanceMap[k].value) > Cent )
    => Len(transactions) <= NonZeroCount(balanceMap) - 1

\* five members, four transactions
C10_Witness ==
    /\ pc = "done"
    /\ NonZeroCount(balanceMap) = 5
    /\ Len(transactions) = 4

\* the double held for member u in the balance map is below -0.01
InputBelowMinusCent(u) ==
    \E k \in 1..Len(balanceMap) :
        /\ balanceMap[k].key = u
        /\ \/ balanceMap[k].value < -Cent
           \/ balanceMap[k].value = -Cent /\ balanceMap[k].err = -1

\* the double held for member u in the balance map is above +0.01
InputAboveCent(u) ==
    \E k \in 1..Len(balanceMap) :
        /\ balanceMap[k].key = u
        /\ \/ balanceMap[k].value > Cent
           \/ balanceMap[k].value = Cent /\ balanceMap[k].err = 1

\* the function is in its sweep or has returned: transactions is its result so far
Sweeping == pc \in {"loop", "done"}

\* C11 (as stated): every transaction goes from a member whose input balance
\* is below -0.01 to a member whose input balance is above +0.01 and carries
\* an amount greater than 0.01.
C11_WellFormedAboveCent ==
    Sweeping =>
        \A k \in 1..Len(transactions) :
            /\ InputBelowMinusCent(transactions[k].from)
            /\ InputAboveCent(transactions[k].to)
            /\ transactions[k].amount > Cent

\* C11 (amended): every transaction goes from a member whose input balance is
\* below -0.01 to a member whose input balance is above +0.01 and carries a
\* whole number of cents, at least one; so no member both pays and receives.
C11_WellFormed ==
    Sweeping =>
        /\ \A k \in 1..Len(transactions) :
              /\ InputBelowMinusCent(transactions[k].from)
              /\ InputAboveCent(transactions[k].to)
              /\ transactions[k].amount >= Cent
              /\ transactions[k].amount % Cent = 0
        /\ \A k \in 1..Len(transactions), l \in 1..Len(transactions) :
              transactions[k].from # transactions[l].to

\* a transaction of exactly one cent has been returned, and a member whose
\* balance is within 0.01 of zero stayed out of every transaction
C11_Witness ==
    /\ pc = "done"
    /\ \E k \in 1..Len(transactions) : transactions[k].amount = Cent
    /\ \E k \in 1..Len(balanceMap) :
          /\ balanceMap[k].value # 0
          /\ Abs(balanceMap[k].value) < Cent
          /\ balanceMap[k].key \notin Parties(transactions)


-----------------------------------------------------------------------------
(* Further claims about calculateSplits *)

\* calculateSplits has returned splits under the given policy
ReturnedUnder(type) == splitResult.status = "returned" /\ splitType = type

\* C12: under policy 'equal' (whole-cent totalAmount) there is one split per
\* participant in input order; every participant but the first gets
\* base = floor(total in cents / n) cents, the first gets base plus the
\* remainder total - n * base, and that remainder is at least 0 and less
\* than n cents.
C12_EqualSplitRemainderOnFirst ==
    (ReturnedUnder("equal") /\ WholeCents(totalAmount)) =>
        LET n == Len(memberIds)
            cents == totalAmount \div Cent
            base == cents \div n
            remainder == cents - n * base
            splits == splitResult.splits
        IN  /\ Len(splits) = n
            /\ \A k \in 1..n : splits[k].user_id = memberIds[k]
            /\ \A k \in 2..n : splits[k].amount = base * Cent
            /\ splits[1].amount = (base + remainder) * Cent
            /\ remainder >= 0 /\ remainder < n

\* the custom inputs the call was given (`customSplits || []`)
GivenSplits == IF customSplits.given THEN customSplits.list ELSE <<>>

\* num / den rounded to the nearest integer, a tie going up
RoundHalfUp(num, den) == (2 * num + den) \div (2 * den)

\* the percentage a custom input carries, 0 when it carries none
PercentageOf(row) == IF "percentage" \in DOMAIN row THEN row.percentage ELSE 0

\* the amount a custom input carries, 0 when it carries none
AmountOf(row) == IF "amount" \in DOMAIN row THEN row.amount ELSE 0

TotalPercentage == SeqSum([k \in 1..Len(GivenSplits) |-> PercentageOf(GivenSplits[k])])

TotalGivenAmount == SeqSum([k \in 1..Len(GivenSplits) |-> AmountOf(GivenSplits[k])])

\* C13: under policy 'percentage' with percentages summing to 100 there is
\* one split per custom input in input order, and each amount is
\* totalAmount x percentage / 100 rounded half up to a whole number of cents.
C13_PercentageRoundedHalfUp ==
    (ReturnedUnder("percentage") /\ TotalPercentage = 100 * PctPoint) =>
        /\ Len(splitResult.splits) = Len(GivenSplits)
        /\ \A k \in 1..Len(GivenSplits) :
              /\ splitResult.splits[k].user_id = GivenSplits[k].user_id
              /\ splitResult.splits[k].amount =
                    Cent * RoundHalfUp(totalAmount * PercentageOf(GivenSplits[k]),
                                       100 * Cent * PctPoint)

\* the call was made with participants and a positive totalAmount, and is over
CalledUnder(type) ==
    /\ splitType = type
    /\ Len(memberIds) > 0
    /\ totalAmount > 0
    /\ splitResult.status # "pending"

\* the call failed with the given message and returned no splits
FailedWith(msg) ==
    /\ splitResult.status = "threw"
    /\ splitResult.error = msg
    /\ splitResult.splits = <<>>

\* C14: under policy 'percentage' (participants, positive totalAmount) the
\* call fails with 'Percentages must sum to 100' exactly when the supplied
\* percentages, a missing one counted as 0, sum to something that differs
\* from 100 by more than 0.01.
C14_PercentageValidation ==
    CalledUnder("percentage") =>
        (FailedWith("Percentages must sum to 100")
           <=> 100 * Abs(TotalPercentage - 100 * PctPoint) > PctPoint)

\* C15: under policy 'exact' (participants, positive totalAmount) the call
\* fails with 'Split amounts must equal total amount' exactly when the
\* supplied amounts, a missing one counted as 0, sum to something that
\* differs from totalAmount by more than 0.01; otherwise it returns one split
\* per custom input, in input order, carrying exactly the supplied amount.
C15_ExactSplitContract ==
    CalledUnder("exact") =>
        /\ FailedWith("Split amounts must equal total amount")
             <=> Abs(TotalGivenAmount - totalAmount) > Cent
        /\ ~FailedWith("Split amounts must equal total amount") =>
              /\ splitResult.status = "returned"
              /\ Len(splitResult.splits) = Len(GivenSplits)
              /\ \A k \in 1..Len(GivenSplits) :
                    /\ splitResult.splits[k].user_id = GivenSplits[k].user_id
                    /\ splitResult.splits[k].amount = AmountOf(GivenSplits[k])

\* the policies calculateSplits knows
KnownPolicies == {"equal", "percentage", "exact"}

\* C16: whatever the policy and the custom inputs, the call fails and returns
\* no splits when the participant list is empty ('At least one member is
\* required'), else when totalAmount <= 0 ('Amount must be positive'), else
\* when the policy is none of equal, percentage, exact.
C16_PreconditionErrors ==
    splitResult.status # "pending" =>
        /\ Len(memberIds) = 0 => FailedWith("At least one member is required")
        /\ (Len(memberIds) > 0 /\ totalAmount <= 0) => FailedWith("Amount must be positive")
        /\ (Len(memberIds) > 0 /\ totalAmount > 0 /\ splitType \notin KnownPolicies) =>
              /\ splitResult.status = "threw"
              /\ splitResult.splits = <<>>
              /\ splitResult.error
                    \notin {"At least one member is required", "Amount must be positive"}

\* no participants, a non-positive amount and an unknown policy all at once:
\* the missing participants are what is reported
C16_Witness ==
    /\ Len(memberIds) = 0
    /\ totalAmount <= 0
    /\ splitType \notin KnownPolicies
    /\ FailedWith("At least one member is required")

\* C17: whenever calculateSplits returns, under any policy and any custom
\* inputs, every returned split has an amount of at least 0.
C17_SplitAmountsNonNegative ==
    splitResult.status = "returned" =>
        \A k \in 1..Len(splitResult.splits) : splitResult.splits[k].amount >= 0

-----------------------------------------------------------------------------
(* Further claims about calculateGroupBalances *)

\* the step hands the same records to the function in another order
Reorders == ReorderExpenses \/ ReorderSettlements \/ ReorderSplits

\* C18: for whole-cent ledgers the function returns the same member-to-balance
\* mapping for every permutation of the expenses, of the settlements and of
\* the splits inside an expense.
C18_OrderIndependent ==
    [][Reorders =>
          /\ MapKeys(balances') = MapKeys(balances)
          /\ \A m \in Members :
                /\ MapGetOrZero(balances', m) = MapGetOrZero(balances, m)
                /\ MapErr(balances', m) = MapErr(balances, m)]_vars

\* the members an expense names: its payer and the users of its splits
NamedInExpense(e) == {e.payer_id} \cup {e.splits[n].user_id : n \in 1..Len(e.splits)}

\* the members the ledger names anywhere
Mentioned ==
    UNION {NamedInExpense(expenses[k]) : k \in 1..Len(expenses)}
    \cup {settlements[k].payer_id : k \in 1..Len(settlements)}
    \cup {settlements[k].payee_id : k \in 1..Len(settlements)}

\* C19: the returned map has an entry for exactly the members that occur as
\* an expense payer, a split user, or a settlement payer or payee, one entry
\* each; without expenses and settlements it is empty.
C19_KeysAreMentionedMembers ==
    /\ MapKeys(balances) = Mentioned
    /\ Len(balances) = Cardinality(Mentioned)

\* the payer of an expense without splits, named nowhere else, has an entry
\* with balance 0
C19_Witness ==
    \E k \in 1..Len(expenses) :
        /\ expenses[k].splits = <<>>
        /\ \A l \in 1..Len(expenses) :
              l # k => expenses[k].payer_id \notin NamedInExpense(expenses[l])
        /\ \A l \in 1..Len(settlements) :
              expenses[k].payer_id \notin {settlements[l].payer_id, settlements[l].payee_id}
        /\ MapHas(balances, expenses[k].payer_id)
        /\ MapGetOrZero(balances, expenses[k].payer_id) = 0
        /\ Len(balances) >= 2

-----------------------------------------------------------------------------
(* Further claims about calculateMinimumTransactions *)

\* every list of transactions the sweep can return from the given position
RECURSIVE SweepResults(_, _, _, _, _)
SweepResults(cs, ds, a, b, txs) ==
    IF ~(a < Len(cs) /\ b < Len(ds)) THEN {txs}
    ELSE LET creditor == cs[a + 1]
             debtor == ds[b + 1]
             amount == MinAmount(creditor, debtor)
         IN  UNION {SweepResults([cs EXCEPT ![a + 1] = c], [ds EXCEPT ![b + 1] = d],
                                 IF BelowCent(c) THEN a + 1 ELSE a,
                                 IF BelowCent(d) THEN b + 1 ELSE b,
                                 IF AboveCent(amount)
                                 THEN Append(txs, [from |-> debtor.userId,
                                                   to |-> creditor.userId, amount |-> r])
                                 ELSE txs) :
                      c \in Decremented(creditor, amount),
                      d \in Decremented(debtor, amount),
                      r \in RoundedToCents(amount)}

\* every result of the function when it is the first call ever made
FirstCallResults(m) ==
    SweepResults(SortDesc(CreditorsOf(m)), SortDesc(DebtorsOf(m)), 0, 0, <<>>)

-----------------------------------------------------------------------------
(* Claims about the shares of the equal policy *)

\* the floor share: floor of totalAmount / n to the cent, in ticks
FloorShare == ((totalAmount \div Cent) \div Len(memberIds)) * Cent

\* the participants whose amount is not the floor share
OffFloorShare == {k \in 1..Len(splitResult.splits) : splitResult.splits[k].amount # FloorShare}

\* C22: under policy 'equal' (whole-cent totalAmount) exactly one
\* participant's amount differs from the floor share, and it differs by the
\* remainder totalAmount - n * floor share; where the remainder is zero no
\* amount differs.
C22_OneShareCarriesRemainder ==
    (ReturnedUnder("equal") /\ WholeCents(totalAmount)) =>
        LET remainder == totalAmount - Len(memberIds) * FloorShare
        IN  IF remainder = 0 THEN OffFloorShare = {}
            ELSE /\ Cardinality(OffFloorShare) = 1
                 /\ \A k \in OffFloorShare :
                        splitResult.splits[k].amount - FloorShare = remainder

-----------------------------------------------------------------------------
(* Claims about the steps of the sweep *)

\* one iteration of the loop of calculateMinimumTransactions is taken
SweepStep == pc = "loop" /\ pc' = "loop"

\* the amount by which the step lowers the remaining amount of entry k of list
Settled(before, after, k) == before[k].amount - after[k].amount

\* the step settles the minimum of the two remaining amounts
SettlesMinimum ==
    LET least == Min(creditors[i + 1].amount, debtors[j + 1].amount)
    IN  /\ Settled(creditors, creditors', i + 1) = least
        /\ Settled(debtors, debtors', j + 1) = least

\* the user ids of a list, in its order
UserIds(list) == [k \in 1..Len(list) |-> list[k].userId]

\* entry k is the first of the list whose remaining amount is not below 0.01
FirstUnsettled(list, k) ==
    /\ ~BelowCent(list[k])
    /\ \A n \in 1..(k - 1) : BelowCent(list[n])

\* C23 as stated: in every step the creditor taken has the largest remaining
\* amount among all creditors, the debtor taken the largest remaining amount
\* among all debtors, and the step settles the minimum of the two.
C23_LargestRemainingFirst ==
    [][SweepStep =>
          /\ \A k \in 1..Len(creditors) : ~LessThan(creditors[i + 1], creditors[k])
          /\ \A k \in 1..Len(debtors) : ~LessThan(debtors[j + 1], debtors[k])
          /\ SettlesMinimum]_vars

\* C23: in every step the creditor taken is the first not yet settled creditor
\* in the order of the balances the call was given, largest first, the debtor
\* taken is the first not yet settled debtor in that order of the debts, and
\* the step settles the minimum of their two remaining amounts.
C23_FirstUnsettledInInitialOrder ==
    [][SweepStep =>
          /\ UserIds(creditors) = UserIds(SortDesc(CreditorsOf(balanceMap)))
          /\ UserIds(debtors) = UserIds(SortDesc(DebtorsOf(balanceMap)))
          /\ FirstUnsettled(creditors, i + 1)
          /\ FirstUnsettled(debtors, j + 1)
          /\ SettlesMinimum]_vars

\* a step is about to be taken, after an earlier one, with a creditor whose
\* remaining amount is smaller than that of a creditor further down the list
C23_Witness ==
    /\ pc = "loop"
    /\ i < Len(creditors) /\ j < Len(debtors)
    /\ transactions # <<>>
    /\ \E k \in (i + 2)..Len(creditors) : LessThan(creditors[i + 1], creditors[k])

\* either list is exhausted
Exhausted == i >= Len(creditors) \/ j >= Len(debtors)

\* C24: calculateMinimumTransactions terminates: a call in its loop can
\* always take its next step, every iteration of its loop advances the
\* creditor pointer or the debtor pointer, so that the loop runs at most
\* (creditors + debtors - 1) iterations (none where a list is empty), and it
\* stops as soon as either list is exhausted.
C24_SweepTerminates ==
    /\ [](pc = "loop" => ENABLED (LoopStep \/ LoopExit))
    /\ [][SweepStep => (i' > i \/ j' > j)]_vars
    /\ [](pc \in {"loop", "done"} =>
            /\ iterations <= Max(0, Len(creditors) + Len(debtors) - 1)
            /\ iterations <= i + j)
    /\ [][(pc = "loop" /\ Exhausted) => (pc' = "done" /\ iterations' = iterations)]_vars
    /\ [](pc = "done" => Exhausted)

\* a call has returned after as many iterations as the bound allows
C24_Witness ==
    /\ pc = "done"
    /\ Len(creditors) >= 2 /\ Len(debtors) >= 2
    /\ iterations = Len(creditors) + Len(debtors) - 1

-----------------------------------------------------------------------------
(* Claims about the sum of the balances *)

\* the sides of their amounts the balances stand on, where off them
SidesOff == {balances[k].err : k \in 1..Len(balances)} \ {0}

\* C25: for every list of expenses and every list of settlements (amounts in
\* whole cents; settlements between any members, a payer who is the payee
\* included) the balances of calculateGroupBalances sum to exactly zero: their
\* amounts sum to zero, and the balances that stand off their amounts do not
\* all stand on the same side of them.
C25_BalancesSumToZero ==
    /\ SeqSum(MapValues(balances)) = 0
    /\ Cardinality(SidesOff) # 1

-----------------------------------------------------------------------------
(* SettleUpModal: the form is edited and submitted; an insert into
   settlements is awaited and succeeds, returns an error, or is rejected *)

\* submissions of the form a run follows
MaxSubmissions == 2

\* the member who has the modal open
CurrentUserId == "u1"

\* what the amount field can hold: type="number" keeps it empty or a number
AmountTexts == {"", "0", "-5", "0.01", "50"}

NaN == [nan |-> TRUE, value |-> 0]

Number(ticks) == [nan |-> FALSE, value |-> ticks]

\* parseFloat(amount), the value in ticks
ParseFloat(text) ==
    CASE text = "" -> NaN
      [] text = "0" -> Number(0)
      [] text = "-5" -> Number(-500 * Cent)
      [] text = "0.01" -> Number(Cent)
      [] text = "50" -> Number(5000 * Cent)

\* `isNaN(numAmount) || numAmount <= 0`
AmountRejectedIfNaN(numAmount) == numAmount.nan
AmountRejected(numAmount) == numAmount.nan \/ numAmount.value <= 0

\* `err instanceof Error ? err.message : 'Failed to record settlement'`
FailureMessages == {"Database connection failed", "Failed to record settlement"}

\* onChange of the three fields
SetPayerId ==
    /\ stage \in {"idle", "inserting"}
    /\ \E id \in Members : payerId' = id
    /\ UNCHANGED <<payeeId, amountText, loading, error, stage, pendingInsert,
                   submissions, insertAttempts, settledCalls, balVars, splitVars, txVars, compareVars, modalVars, fetchVars>>

SetPayeeId ==
    /\ stage \in {"idle", "inserting"}
    /\ \E id \in Members \cup {""} : payeeId' = id
    /\ UNCHANGED <<payerId, amountText, loading, error, stage, pendingInsert,
                   submissions, insertAttempts, settledCalls, balVars, splitVars, txVars, compareVars, modalVars, fetchVars>>

SetAmount ==
    /\ stage \in {"idle", "inserting"}
    /\ \E text \in AmountTexts : amountText' = text
    /\ UNCHANGED <<payerId, payeeId, loading, error, stage, pendingInsert,
                   submissions, insertAttempts, settledCalls, balVars, splitVars, txVars, compareVars, modalVars, fetchVars>>

\* handleSubmit up to its await: the three checks, then the insert is sent.
\* The submit button is disabled while loading.
HandleSubmit ==
    /\ stage = "idle"
    /\ ~loading
    /\ submissions < MaxSubmissions
    /\ submissions' = submissions + 1
    /\ IF payeeId = ""
       THEN /\ error' = "Please select who received the payment"
            /\ UNCHANGED <<loading, stage, pendingInsert, insertAttempts>>
       ELSE IF AmountRejected(ParseFloat(amountText))
       THEN /\ error' = "Please enter a valid amount"
            /\ UNCHANGED <<loading, stage, pendingInsert, insertAttempts>>
       ELSE IF payerId = payeeId
       THEN /\ error' = "Payer and payee must be different"
            /\ UNCHANGED <<loading, stage, pendingInsert, insertAttempts>>
       ELSE /\ loading' = TRUE
            /\ error' = Null
            /\ pendingInsert' = [payer_id |-> payerId, payee_id |-> payeeId,
                                 amount |-> ParseFloat(amountText).value]
            /\ insertAttempts' = insertAttempts + 1
            /\ stage' = "inserting"
    /\ UNCHANGED <<payerId, payeeId, amountText, settledCalls, balVars, splitVars, txVars, compareVars, modalVars, fetchVars>>

\* the insert returns no error: the row is stored and onSettled is called
InsertSucceeds ==
    /\ stage = "inserting"
    /\ settlements' = Append(settlements, pendingInsert)
    /\ settledCalls' = settledCalls + 1
    /\ loading' = FALSE
    /\ stage' = "idle"
    /\ pendingInsert' = Null
    /\ UNCHANGED <<payerId, payeeId, amountText, error, submissions, insertAttempts,
                   expenses, balances, splitVars, txVars, compareVars, modalVars, fetchVars>>

\* the insert returns an error, or the request is rejected: catch and finally
InsertFails ==
    /\ stage = "inserting"
    /\ error' \in FailureMessages
    /\ loading' = FALSE
    /\ stage' = "idle"
    /\ pendingInsert' = Null
    /\ UNCHANGED <<payerId, payeeId, amountText, submissions, insertAttempts, settledCalls,
                   balVars, splitVars, txVars, compareVars, modalVars, fetchVars>>

InitSettleUp ==
    /\ payerId = CurrentUserId
    /\ payeeId = ""
    /\ amountText = ""
    /\ loading = FALSE
    /\ error = Null
    /\ stage = "idle"
    /\ pendingInsert = Null
    /\ submissions = 0
    /\ insertAttempts = 0
    /\ settledCalls = 0
    /\ IdleBalances
    /\ IdleSplits
    /\ IdleTransactions
    /\ IdleCompare
    /\ IdleModal
    /\ IdleFetches

NextSettleUp ==
    \/ SetPayerId
    \/ SetPayeeId
    \/ SetAmount
    \/ HandleSubmit
    \/ InsertSucceeds
    \/ InsertFails

SpecSettleUp == InitSettleUp /\ [][NextSettleUp]_vars

\* one call of handleSubmit starts
Submits == submissions' = submissions + 1

\* the amounts the field can hold that are numbers above zero
NumbersAboveZero == {"0.01", "50"}

\* no payee is selected, the amount is not a number or is <= 0, or payer and
\* payee are the same
InvalidForm ==
    \/ payeeId = ""
    \/ amountText \notin NumbersAboveZero
    \/ payerId = payeeId

\* the insert that was awaited has settled without storing a row
InsertFailed == stage = "inserting" /\ stage' = "idle" /\ settlements' = settlements

\* C21: on submit with an invalid form no insert is attempted, an error
\* message is shown and onSettled is not called; when the insert fails an error
\* message is shown and onSettled is not called; onSettled is called only
\* after an insert that returned no error, once for it; and loading is false
\* whenever no submission is in progress.
C21_SettleUpContract ==
    /\ [][(Submits /\ InvalidForm) =>
             /\ insertAttempts' = insertAttempts
             /\ stage' = "idle"
             /\ settlements' = settlements
             /\ error' # Null
             /\ settledCalls' = settledCalls]_vars
    /\ [][(Submits /\ ~InvalidForm) =>
             /\ insertAttempts' = insertAttempts + 1
             /\ stage' = "inserting"
             /\ loading']_vars
    /\ [][InsertFailed => (error' # Null /\ settledCalls' = settledCalls)]_vars
    /\ [][(settledCalls' # settledCalls) =>
             /\ stage = "inserting"
             /\ settlements' = Append(settlements, pendingInsert)
             /\ settledCalls' = settledCalls + 1]_vars
    /\ [](stage = "idle" => ~loading)
    /\ [](settledCalls = Len(settlements) /\ Len(settlements) <= insertAttempts)

\* a payment was recorded and onSettled called, and a later submission was
\* turned down with a message
C21_Witness ==
    /\ settledCalls = 1
    /\ Len(settlements) = 1
    /\ submissions = 2
    /\ insertAttempts = 1
    /\ stage = "idle"
    /\ error = "Payer and payee must be different"

-----------------------------------------------------------------------------
(* Claims about what the transactions charge each member *)

\* the total amount of the transactions of txs in which member u is `side`
RECURSIVE TotalAs(_, _, _)
TotalAs(side, u, txs) ==
    IF txs = <<>> THEN 0
    ELSE (IF Head(txs)[side] = u THEN Head(txs).amount ELSE 0) + TotalAs(side, u, Tail(txs))

\* the transactions are those of the call on balanceMap
InCall == pc \in {"loop", "done"}

\* nobody pays more than the debt, or receives more than the credit, that the
\* balance map holds for them
NobodyOverCharged ==
    \A u \in MapKeys(balanceMap) \cup Parties(transactions) :
        /\ TotalAs("from", u, transactions) <= Max(0, -MapGetOrZero(balanceMap, u))
        /\ TotalAs("to", u, transactions) <= Max(0, MapGetOrZero(balanceMap, u))

\* C28 as stated: for every balance map, zero-sum or not, the total amount
\* with a member as `from` never exceeds that member's debt and the total
\* amount with a member as `to` never exceeds that member's credit.
C28_NobodyOverCharged == InCall => NobodyOverCharged

\* every balance of the map is a whole number of cents
WholeCentMap == \A k \in 1..Len(balanceMap) : WholeCents(balanceMap[k].value)

\* C28: for every balance map whose values are whole cents, zero-sum or not,
\* the total amount with a member as `from` never exceeds that member's debt
\* and the total amount with a member as `to` never exceeds that member's
\* credit.
C28_NobodyOverChargedInCents == (InCall /\ WholeCentMap) => NobodyOverCharged

\* a call on whole-cent balances that do not sum to zero has returned, and a
\* member has been charged the whole of the debt
C28_Witness ==
    /\ pc = "done"
    /\ WholeCentMap
    /\ SeqSum(MapValues(balanceMap)) # 0
    /\ transactions # <<>>
    /\ \E u \in MapKeys(balanceMap) :
          TotalAs("from", u, transactions) = -MapGetOrZero(balanceMap, u)

-----------------------------------------------------------------------------
(* The other implementation of calculateMinimumTransactions: it rounds every
   balance to the cent before the partition, and every step of its sweep
   emits a transaction *)

\* `Math.round(balance * 100) / 100` of one entry of the map, in cents
RoundedBalances(e) == RoundChoices(e.value, Cent)

\* the creditors and the debtors the loop over `balances.entries()` can
\* collect, as pairs <<creditors, debtors>>, in the order of the map
RECURSIVE RoundedPartitions(_)
RoundedPartitions(m) ==
    IF m = <<>> THEN {<<<<>>, <<>>>>}
    ELSE {<<(IF c > 1 THEN <<Entry(Head(m).key, c * Cent, 0)>> ELSE <<>>) \o rest[1],
            (IF ~(c > 1) /\ c < -1 THEN <<Entry(Head(m).key, -c * Cent, 0)>> ELSE <<>>)
                \o rest[2]>> :
             c \in RoundedBalances(Head(m)), rest \in RoundedPartitions(Tail(m))}

\* one iteration of a sweep at position <<cs, ds, a, b, txs>>: every position
\* it can lead to; skips tells whether amounts not above 0.01 are left out
SweepSteps(pos, skips) ==
    LET creditor == pos[1][pos[3] + 1]
        debtor == pos[2][pos[4] + 1]
        amount == MinAmount(creditor, debtor)
    IN  {<<[pos[1] EXCEPT ![pos[3] + 1] = c], [pos[2] EXCEPT ![pos[4] + 1] = d],
           IF BelowCent(c) THEN pos[3] + 1 ELSE pos[3],
           IF BelowCent(d) THEN pos[4] + 1 ELSE pos[4],
           IF skips /\ ~AboveCent(amount) THEN pos[5]
           ELSE Append(pos[5], [from |-> debtor.userId, to |-> creditor.userId, amount |-> r])>> :
            c \in Decremented(creditor, amount),
            d \in Decremented(debtor, amount),
            r \in RoundedToCents(amount)}

\* the loop condition of a sweep
Sweeps(pos) == pos[3] < Len(pos[1]) /\ pos[4] < Len(pos[2])

\* the two sweeps take the same difference of the same two doubles
SameOperands(p, q) ==
    /\ p[1][p[3] + 1] = q[1][q[3] + 1]
    /\ p[2][p[4] + 1] = q[2][q[4] + 1]

\* the pairs <<result of lib/utils.ts, result of the other implementation>>
\* from two positions on: the same subtraction has the same result in both
RECURSIVE BothFrom(_, _)
BothFrom(p, q) ==
    IF ~Sweeps(p) /\ ~Sweeps(q) THEN {<<p[5], q[5]>>}
    ELSE IF ~Sweeps(q) THEN UNION {BothFrom(p1, q) : p1 \in SweepSteps(p, TRUE)}
    ELSE IF ~Sweeps(p) THEN UNION {BothFrom(p, q1) : q1 \in SweepSteps(q, FALSE)}
    ELSE UNION {UNION {BothFrom(p1, q1) :
                          q1 \in {x \in SweepSteps(q, FALSE) :
                                    SameOperands(p, q) =>
                                        /\ x[1][q[3] + 1] = p1[1][p[3] + 1]
                                        /\ x[2][q[4] + 1] = p1[2][p[4] + 1]}} :
                   p1 \in SweepSteps(p, TRUE)}

\* both functions are called on the same balance map
BothResults(m) ==
    UNION {BothFrom(<<SortDesc(CreditorsOf(m)), SortDesc(DebtorsOf(m)), 0, 0, <<>>>>,
                    <<SortDesc(part[1]), SortDesc(part[2]), 0, 0, <<>>>>) :
             part \in RoundedPartitions(m)}

CallBoth ==
    /\ pc = "start"
    /\ \E both \in BothResults(balanceMap) :
          /\ transactions' = both[1]
          /\ otherTransactions' = both[2]
    /\ pc' = "done"
    /\ UNCHANGED <<balanceMap, creditors, debtors, i, j, pass, iterations,
                   balVars, splitVars, settleVars, modalVars, fetchVars>>

InitCompare ==
    /\ InitSimplify
    /\ otherTransactions = <<>>

NextCompare == CallBoth

SpecCompare == InitCompare /\ [][NextCompare]_vars

\* every value of the balance map is a whole number of cents
WholeCentValues ==
    \A k \in 1..Len(balanceMap) : WholeCents(balanceMap[k].value) /\ balanceMap[k].err = 0

\* C29: for every balance map whose values are whole cents the function of
\* lib/utils.ts and the other implementation return the same list of
\* transactions, in the same order.
C29_ImplementationsAgree ==
    (pc = "done" /\ WholeCentValues) => transactions = otherTransactions

\* both have returned the same three transactions or more, one of them the cent
\* that a creditor or a debtor was left with
C29_Witness ==
    /\ pc = "done"
    /\ WholeCentValues
    /\ Len(transactions) >= 3
    /\ transactions = otherTransactions
    /\ \E k \in 1..Len(transactions) : transactions[k].amount = Cent

-----------------------------------------------------------------------------
(* ExpenseModal: an expense is created or edited through the form.  A stored
   expense row carries its splits; `policy` is not stored by the source: it
   records under which policy the stored splits were computed. *)

\* `x < bound` for a double x whose exact value is x
LessChoices(x, bound) ==
    IF x < bound THEN {TRUE} ELSE IF x > bound THEN {FALSE} ELSE {TRUE, FALSE}

\* `amounts.every(a => Math.abs(a - amounts[0]) < 0.05)`: a - a is exactly 0
RECURSIVE AllEqualChoices(_, _)
AllEqualChoices(amounts, first) ==
    IF amounts = <<>> THEN {TRUE}
    ELSE {near /\ rest :
            near \in (IF Head(amounts) = first THEN {TRUE}
                      ELSE LessChoices(Abs(Head(amounts) - first), 5 * Cent)),
            rest \in AllEqualChoices(Tail(amounts), first)}

\* the split type the useEffect infers from a stored expense; with no splits
\* amounts[0] is undefined and the second comparison is false
InferredSplitTypes(row) ==
    IF row.splits = <<>> THEN {"exact"}
    ELSE LET amounts == [k \in 1..Len(row.splits) |-> row.splits[k].amount]
         IN  {IF isAllEqual /\ sumsUp THEN "equal" ELSE "exact" :
                isAllEqual \in AllEqualChoices(amounts, amounts[1]),
                sumsUp \in LessChoices(Abs(amounts[1] * Len(amounts) - row.amount), 5 * Cent)}

\* `splitMap[s.user_id] = s.amount.toString()`, read back with parseFloat
SplitMapOf(row) ==
    [given |-> TRUE,
     list |-> [k \in 1..Len(row.splits) |->
                  [user_id |-> row.splits[k].user_id, amount |-> row.splits[k].amount]]]

\* stored expenses a run follows
MaxStoredExpenses == 1

\* what the form can be set to: an amount, the selected members, a split type
\* and, for a custom type, the same entry for every selected member
FormAmounts == {0, MaxTotal * Cent}

FormEntries(type) ==
    IF type = "percentage" THEN {25 * PctPoint, 50 * PctPoint} ELSE {Cent}

FormSplits(ids, type) ==
    IF type = "equal" THEN {NoCustomSplits}
    ELSE {[given |-> TRUE,
           list |-> [k \in 1..Len(ids) |->
                       IF type = "percentage" THEN [user_id |-> ids[k], percentage |-> v]
                       ELSE [user_id |-> ids[k], amount |-> v]]] :
            v \in FormEntries(type)}

\* the user fills in the form
FillForm ==
    /\ totalAmount' \in FormAmounts
    /\ \E n \in 0..MaxParticipants : memberIds' = SubSeq(ParticipantIds, 1, n)
    /\ splitType' \in {"equal", "percentage", "exact"}
    /\ customSplits' \in FormSplits(memberIds', splitType')

\* what every action of the modal leaves alone; the result of calculateSplits
\* is a local of handleSubmit
OutsideModal ==
    <<settlements, balances, splitResult, txVars, settleVars, compareVars, fetchVars>>

\* the modal is unmounted: its state is dropped
Unmounted ==
    /\ totalAmount' = 0
    /\ memberIds' = <<>>
    /\ splitType' = "equal"
    /\ customSplits' = NoCustomSplits
    /\ expenseToEdit' = 0
    /\ modalStage' = "closed"
    /\ expenseId' = 0
    /\ modalError' = Null
    /\ storedAtSubmit' = <<>>

\* the modal is opened for a new expense and filled in
OpenForCreate ==
    /\ modalStage = "closed"
    /\ Len(expenses) < MaxStoredExpenses
    /\ FillForm
    /\ expenseToEdit' = 0
    /\ modalStage' = "open"
    /\ modalError' = Null
    /\ UNCHANGED <<expenses, expenseId, storedAtSubmit, OutsideModal>>

\* the modal is opened on a stored expense: the useEffect sets the form
OpenForEdit ==
    /\ modalStage = "closed"
    /\ \E k \in 1..Len(expenses) :
          /\ expenseToEdit' = k
          /\ totalAmount' = expenses[k].amount
          /\ memberIds' = [n \in 1..Len(expenses[k].splits) |-> expenses[k].splits[n].user_id]
          /\ splitType' \in InferredSplitTypes(expenses[k])
          /\ customSplits' = IF splitType' = "equal" THEN NoCustomSplits
                             ELSE SplitMapOf(expenses[k])
    /\ modalStage' = "open"
    /\ modalError' = Null
    /\ UNCHANGED <<expenses, expenseId, storedAtSubmit, OutsideModal>>

\* the user changes the form of the open modal
ChangeForm ==
    /\ modalStage = "open"
    /\ FillForm
    /\ UNCHANGED <<expenses, modalVars, OutsideModal>>

\* the modal is closed without a submission
CloseModal ==
    /\ modalStage = "open"
    /\ Unmounted
    /\ UNCHANGED <<expenses, OutsideModal>>

\* handleSubmit up to its first await: the checks of the amount and the members
SubmitExpense ==
    /\ modalStage = "open"
    /\ expenseToEdit = 0 => Len(expenses) < MaxStoredExpenses
    /\ storedAtSubmit' = expenses
    /\ IF totalAmount <= 0
       THEN modalError' = "Please enter a valid amount" /\ modalStage' = "open"
       ELSE IF Len(memberIds) = 0
       THEN modalError' = "Select at least one member to split with" /\ modalStage' = "open"
       ELSE modalError' = Null /\ modalStage' = "writing"
    /\ UNCHANGED <<expenses, totalAmount, memberIds, splitType, customSplits, expenseToEdit,
                   expenseId, OutsideModal>>

\* `err instanceof Error ? err.message : 'Failed to ...'`
WriteFailures == {"Failed to add expense", "Failed to update expense"}

\* the expense row is inserted (create) or updated (edit), or the write fails
WriteExpense ==
    /\ modalStage = "writing"
    /\ \/ /\ expenseToEdit = 0
          /\ expenses' = Append(expenses, [payer_id |-> CurrentUserId, amount |-> totalAmount,
                                           splits |-> <<>>, policy |-> "none"])
          /\ expenseId' = Len(expenses) + 1
          /\ modalStage' = "splitting"
          /\ UNCHANGED modalError
       \/ /\ expenseToEdit # 0
          /\ expenses' = [expenses EXCEPT ![expenseToEdit].amount = totalAmount,
                                          ![expenseToEdit].payer_id = CurrentUserId]
          /\ expenseId' = expenseToEdit
          /\ modalStage' = "deleting"
          /\ UNCHANGED modalError
       \/ /\ modalError' \in WriteFailures
          /\ modalStage' = "open"
          /\ UNCHANGED <<expenses, expenseId>>
    /\ UNCHANGED <<totalAmount, memberIds, splitType, customSplits, expenseToEdit,
                   storedAtSubmit, OutsideModal>>

\* edit: the splits of the expense are deleted, or the delete fails
DeleteSplits ==
    /\ modalStage = "deleting"
    /\ \/ /\ expenses' = [expenses EXCEPT ![expenseId].splits = <<>>,
                                          ![expenseId].policy = "none"]
          /\ modalStage' = "splitting"
          /\ UNCHANGED modalError
       \/ /\ modalError' \in WriteFailures
          /\ modalStage' = "open"
          /\ UNCHANGED expenses
    /\ UNCHANGED <<totalAmount, memberIds, splitType, customSplits, expenseToEdit, expenseId,
                   storedAtSubmit, OutsideModal>>

\* calculateSplits is called; what it returns is inserted as the splits of
\* the expense and onSuccess closes the modal; what it throws, or a failed
\* insert, is shown as the error
InsertSplits ==
    /\ modalStage = "splitting"
    /\ \E splits \in calculateSplits(totalAmount, memberIds, splitType, customSplits) :
          \/ /\ splits.status = "threw"
             /\ modalError' = splits.error
             /\ modalStage' = "open"
             /\ UNCHANGED <<expenses, totalAmount, memberIds, splitType, customSplits,
                            expenseToEdit, expenseId, storedAtSubmit>>
          \/ /\ splits.status = "returned"
             /\ expenses' = [expenses EXCEPT ![expenseId].splits = splits.splits,
                                             ![expenseId].policy = splitType]
             /\ Unmounted
          \/ /\ splits.status = "returned"
             /\ modalError' \in WriteFailures
             /\ modalStage' = "open"
             /\ UNCHANGED <<expenses, totalAmount, memberIds, splitType, customSplits,
                            expenseToEdit, expenseId, storedAtSubmit>>
    /\ UNCHANGED OutsideModal

InitExpenseModal ==
    /\ expenses = <<>>
    /\ settlements = <<>>
    /\ balances = EmptyMap
    /\ IdleSplits
    /\ IdleTransactions
    /\ IdleSettleUp
    /\ IdleCompare
    /\ IdleFetches
    /\ expenseToEdit = 0
    /\ modalStage = "closed"
    /\ expenseId = 0
    /\ modalError = Null
    /\ storedAtSubmit = <<>>

NextExpenseModal ==
    \/ OpenForCreate
    \/ OpenForEdit
    \/ ChangeForm
    \/ CloseModal
    \/ SubmitExpense
    \/ WriteExpense
    \/ DeleteSplits
    \/ InsertSplits

SpecExpenseModal == InitExpenseModal /\ [][NextExpenseModal]_vars

\* what calculatePercentageSplit and calculateExactSplit reject an input with
SplitRejections == {"Percentages must sum to 100", "Split amounts must equal total amount"}

\* C26: when calculateSplits has rejected the input of a submission, create or
\* edit, the stored data is what it was when the submission started: no
\* expense row inserted or updated, no split rows deleted.
C26_RejectedSubmissionStoresNothing ==
    (modalStage = "open" /\ modalError \in SplitRejections) => expenses = storedAtSubmit

\* C30: when an expense whose stored splits calculateSplits produced under
\* policy 'equal' is opened for editing, the heuristic sets the split type
\* of the form to 'equal'.
C30_EqualSplitRecognised ==
    [][\A k \in 1..Len(expenses) :
          (modalStage = "closed" /\ modalStage' = "open" /\ expenseToEdit' = k
              /\ expenses[k].policy = "equal")
          => splitType' = "equal"]_vars

-----------------------------------------------------------------------------
(* GroupDetail: fetchExpenses reads the stored expenses, their splits and the
   settlements with three queries, one after the other, and then sets the
   balances and the suggested transactions that are shown.  It is called when
   the group is loaded and after every write; nothing orders the calls.  Here
   `balances` and `transactions` are the state shown, `expenses` and
   `settlements` what is stored, and `fetches` the calls in the order issued.
   Every query is answered with data. *)

\* calls of fetchExpenses a run follows
MaxFetches == 3

\* the rows that are written: one split of one cent, a settlement of one cent
WrittenSplits == {<<[user_id |-> m, amount |-> Cent]>> : m \in Members}

WrittenSettlements == [payer_id : Members, payee_id : Members, amount : {Cent}]

\* `.order('created_at', { ascending: false })`
NewestFirst(rows) == [k \in 1..Len(rows) |-> rows[Len(rows) + 1 - k]]

\* the rows of `rows` other than those with the id
RECURSIVE WithoutId(_, _)
WithoutId(rows, id) ==
    IF rows = <<>> THEN <<>>
    ELSE (IF Head(rows).id = id THEN <<>> ELSE <<Head(rows)>>) \o WithoutId(Tail(rows), id)

\* `.in('expense_id', expenseIds)` and `splits.filter(s => s.expense_id ===
\* expense.id)`: the splits stored now for an expense read earlier
StoredSplitsOf(id) ==
    IF \E k \in 1..Len(expenses) : expenses[k].id = id
    THEN expenses[CHOOSE k \in 1..Len(expenses) : expenses[k].id = id].splits
    ELSE <<>>

\* a call of fetchExpenses is issued
Issued == Append(fetches, [stage |-> "expenses", es |-> <<>>])

OutsideFetch == <<splitVars, balanceMap, creditors, debtors, i, j, pc, pass, iterations,
                  settleVars, compareVars, modalVars>>

\* useEffect: the group is loaded
LoadGroup ==
    /\ fetches = <<>>
    /\ fetches' = Issued
    /\ UNCHANGED <<expenses, settlements, balances, transactions, OutsideFetch>>

CanWrite == fetches # <<>> /\ Len(fetches) < MaxFetches

\* an expense is added: handleExpenseAdded
ExpenseAdded ==
    /\ CanWrite
    /\ \E payer \in Members, splits \in WrittenSplits :
          expenses' = Append(expenses, [id |-> Len(fetches), payer_id |-> payer,
                                        splits |-> splits])
    /\ fetches' = Issued
    /\ UNCHANGED <<settlements, balances, transactions, OutsideFetch>>

\* the splits of an expense are replaced: handleExpenseEditSuccess
ExpenseEdited ==
    /\ CanWrite
    /\ \E k \in 1..Len(expenses), splits \in WrittenSplits :
          /\ splits # expenses[k].splits
          /\ expenses' = [expenses EXCEPT ![k].splits = splits]
    /\ fetches' = Issued
    /\ UNCHANGED <<settlements, balances, transactions, OutsideFetch>>

\* an expense and its splits are deleted: handleExpenseDelete
ExpenseDeleted ==
    /\ CanWrite
    /\ \E k \in 1..Len(expenses) : expenses' = WithoutId(expenses, expenses[k].id)
    /\ fetches' = Issued
    /\ UNCHANGED <<settlements, balances, transactions, OutsideFetch>>

\* a settlement is recorded: onSettled
SettlementRecorded ==
    /\ CanWrite
    /\ \E s \in WrittenSettlements : settlements' = Append(settlements, s)
    /\ fetches' = Issued
    /\ UNCHANGED <<expenses, balances, transactions, OutsideFetch>>

\* the state is set from what call f has read: setBalances and
\* setSuggestedTransactions
ShowBalances(es, ss) ==
    /\ balances' = calculateGroupBalances(es, ss)
    /\ transactions' \in FirstCallResults(balances')

\* the expenses query of call f is answered
ExpensesAnswered(f) ==
    /\ fetches[f].stage = "expenses"
    /\ fetches' = [fetches EXCEPT ![f].es = NewestFirst(expenses),
                                  ![f].stage = IF expenses = <<>> THEN "settlements"
                                               ELSE "splits"]
    /\ UNCHANGED <<expenses, settlements, balances, transactions, OutsideFetch>>

\* the splits query of call f is answered
SplitsAnswered(f) ==
    /\ fetches[f].stage = "splits"
    /\ LET read == fetches[f].es
       IN  fetches' = [fetches EXCEPT
                         ![f].es = [k \in 1..Len(read) |->
                                      [read[k] EXCEPT !.splits = StoredSplitsOf(read[k].id)]],
                         ![f].stage = "settlements"]
    /\ UNCHANGED <<expenses, settlements, balances, transactions, OutsideFetch>>

\* the settlements query of call f is answered and the state is set
SettlementsAnswered(f) ==
    /\ fetches[f].stage = "settlements"
    /\ ShowBalances(fetches[f].es, settlements)
    /\ fetches' = [fetches EXCEPT ![f].stage = "done"]
    /\ UNCHANGED <<expenses, settlements, OutsideFetch>>

InitFetch ==
    /\ expenses = <<>>
    /\ settlements = <<>>
    /\ balances = EmptyMap
    /\ IdleSplits
    /\ IdleTransactions
    /\ IdleComponents

NextFetch ==
    \/ LoadGroup
    \/ ExpenseAdded
    \/ ExpenseEdited
    \/ ExpenseDeleted
    \/ SettlementRecorded
    \/ \E f \in 1..Len(fetches) : ExpensesAnswered(f)
    \/ \E f \in 1..Len(fetches) : SplitsAnswered(f)
    \/ \E f \in 1..Len(fetches) : SettlementsAnswered(f)

SpecFetch == InitFetch /\ [][NextFetch]_vars

\* every call of fetchExpenses has set the state
AllAnswered == fetches # <<>> /\ \A f \in 1..Len(fetches) : fetches[f].stage = "done"

\* what is shown is what a call of fetchExpenses computes from what is stored
ShowsStored ==
    /\ balances = calculateGroupBalances(NewestFirst(expenses), settlements)
    /\ transactions \in FirstCallResults(balances)

\* call f sets the state in this step
Sets(f) == fetches[f].stage = "settlements" /\ fetches'[f].stage = "done"

\* C27: once every call of fetchExpenses issued has completed, whatever the
\* order of the calls and of their responses, the balances and the suggested
\* transactions shown are those of the stored expenses, splits and
\* settlements; and a call never sets the state after a call issued later
\* has set it.
C27_ShownBalancesConverge ==
    /\ [](AllAnswered => ShowsStored)
    /\ [][\A f \in 1..Len(fetches) :
            Sets(f) => \A g \in (f + 1)..Len(fetches) : fetches[g].stage # "done"]_vars

=============================================================================
